---- MODULE Spec2Model ----
(***************************************************************************)
(* The three browser verification scripts of jules-scratch/verification:   *)
(*   verify.py            (script 1, synchronous, with a sign-in fallback) *)
(*   verify_fix.py        (script 2, asynchronous coroutine main())        *)
(*   verify_login_page.py (script 3, synchronous, no element wait)         *)
(* A run executes the statements of one script in program order.  The      *)
(* target application is the environment: it decides what text is visible  *)
(* on the page, whether the server answers the navigation, and how long an *)
(* element takes to appear.  Calls whose outcome depends on the target     *)
(* application (goto, wait_for_load_state, wait_for_selector, click)       *)
(* either return or raise, as the automation library documents; a raised   *)
(* error that no try block catches ends the run.  Calls that depend only   *)
(* on the local browser process and file system (launch, new_page,         *)
(* screenshot, close) are modelled as returning.                           *)
(* trace records the calls the current run has executed and whether each   *)
(* returned; files maps a path to the run that last wrote it and the page  *)
(* it captured; inflight holds the awaited operations of script 2 that     *)
(* have started and not ended; waited is the time spent in selector waits. *)
(***************************************************************************)
EXTENDS Naturals, Sequences, FiniteSets

VARIABLES script, run, pc, trace, out, page, files, failure, inflight, waited

vars == <<script, run, pc, trace, out, page, files, failure, inflight, waited>>

\* How many runs a behaviour holds, one after the other.
MaxRuns == 2

\* Timeouts of the selector waits, in milliseconds.
FirstTimeout == 10000
SecondTimeout == 60000
DefaultTimeout == 30000

\* The texts the scripts select on.
NewDeployment == "New Deployment"
SignInWithGitHub == "Sign in with GitHub"
SelectARepository == "Select a repository"
Texts == {NewDeployment, SignInWithGitHub, SelectARepository}

\* What a page can show: any set of the texts.
Pages == SUBSET Texts

\* The file system: the screenshot path and one other path.
ShotPath == "jules-scratch/verification/verification.png"
OtherPath == "jules-scratch/verification/other"
Paths == {ShotPath, OtherPath}
Absent == [run |-> 0, image |-> {}]

\* The delays after which the target application may show an element.
Delays ==
    {1, FirstTimeout - 1, FirstTimeout + 1, DefaultTimeout - 1,
     DefaultTimeout + 1, SecondTimeout - 1, SecondTimeout + 1}

Scripts == {"verify", "verify_fix", "verify_login_page"}
Terminal == {"done", "failed"}

\* The statements of each script, in program order.
VerifySteps ==
    <<"launch", "new_page", "goto", "wait_for_load_state",
      "wait_for_selector_first", "print_already", "print_not_logged_in",
      "click", "wait_for_selector_second", "screenshot", "close">>
FixSteps ==
    <<"launch", "new_page", "goto", "wait_for_selector", "screenshot", "close">>
LoginSteps ==
    <<"launch", "new_page", "goto", "screenshot", "close">>

Step(s, ok) == [step |-> s, ok |-> ok]

Init ==
    /\ script = "none"
    /\ run = 0
    /\ pc = "idle"
    /\ trace = <<>>
    /\ out = <<>>
    /\ page = {}
    /\ files = [p \in Paths |-> Absent]
    /\ failure = "none"
    /\ inflight = {}
    /\ waited = 0

\* The interpreter starts a script: a new process with nothing executed yet.
Start(s) ==
    /\ pc \in Terminal \cup {"idle"}
    /\ run < MaxRuns
    /\ script' = s
    /\ run' = run + 1
    /\ pc' = "launch"
    /\ trace' = <<>>
    /\ out' = <<>>
    /\ page' = {}
    /\ failure' = "none"
    /\ inflight' = {}
    /\ waited' = 0
    /\ UNCHANGED files

\* A statement returns and control moves to the next one.
Return(s, next) ==
    /\ trace' = Append(trace, Step(s, TRUE))
    /\ pc' = next
    /\ failure' = failure

\* A statement raises outside any try block: the error leaves the script.
Raise(s) ==
    /\ trace' = Append(trace, Step(s, FALSE))
    /\ pc' = "failed"
    /\ failure' = s

\* A statement raises inside the try block: control moves to the handler.
Caught(s, handler) ==
    /\ trace' = Append(trace, Step(s, FALSE))
    /\ pc' = handler
    /\ failure' = failure

\* page.wait_for_selector('text=...', timeout=...): returns at once when the
\* text is visible, returns after d ms when it appears before the timeout,
\* raises after the timeout otherwise.
WaitForSelector(text, timeout, s, next, caught) ==
    \/ /\ text \in page
       /\ Return(s, next)
       /\ UNCHANGED <<page, waited>>
    \/ /\ text \notin page
       /\ \E d \in Delays, p \in Pages :
            /\ d < timeout
            /\ text \in p
            /\ page' = p
            /\ waited' = waited + d
            /\ Return(s, next)
    \/ /\ text \notin page
       /\ \E d \in Delays, p \in Pages :
            /\ d >= timeout
            /\ text \notin p
            /\ page' = p
            /\ waited' = waited + timeout
            /\ IF caught = "none" THEN Raise(s) ELSE Caught(s, caught)

\* page.goto(url): the server answers and some page is rendered, or the
\* navigation fails and the call raises.
Goto(next) ==
    \/ /\ \E p \in Pages : page' = p
       /\ Return("goto", next)
    \/ /\ page' = {}
       /\ Raise("goto")

\* Mutant: the screenshot goes to another path.
Screenshot_OtherPath ==
    /\ files' = [files EXCEPT ![OtherPath] = [run |-> run, image |-> page]]
    /\ Return("screenshot", "close")

\* page.screenshot(path=...): the rendered page is written to the fixed path.
Screenshot ==
    /\ files' = [files EXCEPT ![ShotPath] = [run |-> run, image |-> page]]
    /\ Return("screenshot", "close")

\* browser.close(): the last statement; the run ends normally.
Close ==
    Return("close", "done")

At(sc, s) ==
    /\ script = sc
    /\ pc = s

(***************************************************************************)
(* Script 1: verify.py, run(playwright).                                   *)
(***************************************************************************)
Verify_start ==
    Start("verify")

Verify_launch ==
    /\ At("verify", "launch")
    /\ Return("launch", "new_page")
    /\ UNCHANGED <<script, run, out, page, files, inflight, waited>>

Verify_new_page ==
    /\ At("verify", "new_page")
    /\ Return("new_page", "goto")
    /\ UNCHANGED <<script, run, out, page, files, inflight, waited>>

Verify_goto ==
    /\ At("verify", "goto")
    /\ Goto("wait_for_load_state")
    /\ UNCHANGED <<script, run, out, files, inflight, waited>>

\* page.wait_for_load_state("networkidle"): the network goes idle, or it never
\* does and the call raises.
Verify_wait_for_load_state ==
    /\ At("verify", "wait_for_load_state")
    /\ \/ Return("wait_for_load_state", "wait_for_selector_first")
       \/ Raise("wait_for_load_state")
    /\ UNCHANGED <<script, run, out, page, files, inflight, waited>>

\* Mutant: the first wait is outside the try block.
Verify_wait_for_selector_first_Uncaught ==
    /\ At("verify", "wait_for_selector_first")
    /\ WaitForSelector(NewDeployment, FirstTimeout, "wait_for_selector_first",
                       "print_already", "none")
    /\ UNCHANGED <<script, run, out, files, inflight>>

\* The wait inside the try block: a failure is caught by the bare except.
Verify_wait_for_selector_first ==
    /\ At("verify", "wait_for_selector_first")
    /\ WaitForSelector(NewDeployment, FirstTimeout, "wait_for_selector_first",
                       "print_already", "print_not_logged_in")
    /\ UNCHANGED <<script, run, out, files, inflight>>

\* Mutant: the success branch falls through into the sign-in fallback.
Verify_print_already_FallsThrough ==
    /\ At("verify", "print_already")
    /\ out' = Append(out, "Already logged in.")
    /\ Return("print_already", "click")
    /\ UNCHANGED <<script, run, page, files, inflight, waited>>

Verify_print_already ==
    /\ At("verify", "print_already")
    /\ out' = Append(out, "Already logged in.")
    /\ Return("print_already", "screenshot")
    /\ UNCHANGED <<script, run, page, files, inflight, waited>>

Verify_print_not_logged_in ==
    /\ At("verify", "print_not_logged_in")
    /\ out' = Append(out, "Not logged in, attempting to sign in.")
    /\ Return("print_not_logged_in", "click")
    /\ UNCHANGED <<script, run, page, files, inflight, waited>>

\* page.click('text="Sign in with GitHub"'): the element is there (or appears)
\* and is clicked, after which the application may show another page; or it
\* never appears and the call raises.
Verify_click ==
    /\ At("verify", "click")
    /\ \/ /\ \E p \in Pages : page' = p
          /\ Return("click", "wait_for_selector_second")
       \/ /\ SignInWithGitHub \notin page
          /\ page' = page
          /\ Raise("click")
    /\ UNCHANGED <<script, run, out, files, inflight, waited>>

\* Mutant: after the second wait the script closes without a screenshot.
Verify_wait_for_selector_second_NoShot ==
    /\ At("verify", "wait_for_selector_second")
    /\ WaitForSelector(NewDeployment, SecondTimeout, "wait_for_selector_second",
                       "close", "none")
    /\ UNCHANGED <<script, run, out, files, inflight>>

\* Mutant: the second wait's failure is swallowed and the script goes on.
Verify_wait_for_selector_second_Swallowed ==
    /\ At("verify", "wait_for_selector_second")
    /\ WaitForSelector(NewDeployment, SecondTimeout, "wait_for_selector_second",
                       "screenshot", "screenshot")
    /\ UNCHANGED <<script, run, out, files, inflight>>

\* Mutant: the second wait is retried when it times out.
Verify_wait_for_selector_second_Retry ==
    /\ At("verify", "wait_for_selector_second")
    /\ WaitForSelector(NewDeployment, SecondTimeout, "wait_for_selector_second",
                       "screenshot", "wait_for_selector_second")
    /\ UNCHANGED <<script, run, out, files, inflight>>

\* The wait in the except block: nothing catches its failure.
Verify_wait_for_selector_second ==
    /\ At("verify", "wait_for_selector_second")
    /\ WaitForSelector(NewDeployment, SecondTimeout, "wait_for_selector_second",
                       "screenshot", "none")
    /\ UNCHANGED <<script, run, out, files, inflight>>

\* Mutant: the script ends after the screenshot without closing the browser.
Verify_screenshot_NoClose ==
    /\ At("verify", "screenshot")
    /\ files' = [files EXCEPT ![ShotPath] = [run |-> run, image |-> page]]
    /\ Return("screenshot", "done")
    /\ UNCHANGED <<script, run, out, page, inflight, waited>>

Verify_screenshot ==
    /\ At("verify", "screenshot")
    /\ Screenshot
    /\ UNCHANGED <<script, run, out, page, inflight, waited>>

Verify_close ==
    /\ At("verify", "close")
    /\ Close
    /\ UNCHANGED <<script, run, out, page, files, inflight, waited>>

verify ==
    \/ Verify_launch
    \/ Verify_new_page
    \/ Verify_goto
    \/ Verify_wait_for_load_state
    \/ Verify_wait_for_selector_first
    \/ Verify_print_already
    \/ Verify_print_not_logged_in
    \/ Verify_click
    \/ Verify_wait_for_selector_second
    \/ Verify_screenshot
    \/ Verify_close

(***************************************************************************)
(* Script 2: verify_fix.py, the coroutine main() run by asyncio.run.  Each *)
(* `await f()` starts the operation f and suspends main() until it ends.   *)
(***************************************************************************)
Fix_start ==
    Start("verify_fix")

\* `await`: main() is at statement pc with nothing pending; the operation is
\* started and main() is suspended on it.
Fix_await ==
    /\ script = "verify_fix"
    /\ pc \notin Terminal
    /\ inflight = {}
    /\ inflight' = {pc}
    /\ UNCHANGED <<script, run, pc, trace, out, page, files, failure, waited>>

\* The pending operation s has ended: main() is resumed at statement s.
Resumed(s) ==
    /\ At("verify_fix", s)
    /\ inflight = {s}
    /\ inflight' = {}

Fix_launch ==
    /\ Resumed("launch")
    /\ Return("launch", "new_page")
    /\ UNCHANGED <<script, run, out, page, files, waited>>

Fix_new_page ==
    /\ Resumed("new_page")
    /\ Return("new_page", "goto")
    /\ UNCHANGED <<script, run, out, page, files, waited>>

Fix_goto ==
    /\ Resumed("goto")
    /\ Goto("wait_for_selector")
    /\ UNCHANGED <<script, run, out, files, waited>>

\* Mutant: the wait's failure is swallowed and the script goes on.
Fix_wait_for_selector_Swallowed ==
    /\ Resumed("wait_for_selector")
    /\ WaitForSelector(SelectARepository, DefaultTimeout, "wait_for_selector",
                       "screenshot", "screenshot")
    /\ UNCHANGED <<script, run, out, files>>

\* Mutant: the wait has no timeout (timeout=0): while the text does not show,
\* the call keeps polling the page and main() stays suspended.
Fix_wait_for_selector_NoTimeout ==
    /\ At("verify_fix", "wait_for_selector")
    /\ inflight = {"wait_for_selector"}
    /\ \/ /\ SelectARepository \in page
          /\ inflight' = {}
          /\ Return("wait_for_selector", "screenshot")
          /\ UNCHANGED <<page, waited>>
       \/ /\ SelectARepository \notin page
          /\ \E p \in Pages :
               /\ SelectARepository \in p
               /\ page' = p
               /\ waited' = DefaultTimeout - 1
               /\ inflight' = {}
               /\ Return("wait_for_selector", "screenshot")
       \/ /\ SelectARepository \notin page
          /\ \E p \in Pages :
               /\ SelectARepository \notin p
               /\ p # page
               /\ page' = p
               /\ UNCHANGED <<pc, trace, failure, inflight, waited>>
    /\ UNCHANGED <<script, run, out, files>>

\* No timeout argument: the library default applies; nothing catches a failure.
Fix_wait_for_selector ==
    /\ Resumed("wait_for_selector")
    /\ WaitForSelector(SelectARepository, DefaultTimeout, "wait_for_selector",
                       "screenshot", "none")
    /\ UNCHANGED <<script, run, out, files>>

Fix_screenshot ==
    /\ Resumed("screenshot")
    /\ Screenshot
    /\ UNCHANGED <<script, run, out, page, waited>>

Fix_close ==
    /\ Resumed("close")
    /\ Close
    /\ UNCHANGED <<script, run, out, page, files, waited>>

main ==
    \/ Fix_await
    \/ Fix_launch
    \/ Fix_new_page
    \/ Fix_goto
    \/ Fix_wait_for_selector
    \/ Fix_screenshot
    \/ Fix_close

(***************************************************************************)
(* Script 3: verify_login_page.py, run().                                  *)
(***************************************************************************)
Login_start ==
    Start("verify_login_page")

Login_launch ==
    /\ At("verify_login_page", "launch")
    /\ Return("launch", "new_page")
    /\ UNCHANGED <<script, run, out, page, files, inflight, waited>>

Login_new_page ==
    /\ At("verify_login_page", "new_page")
    /\ Return("new_page", "goto")
    /\ UNCHANGED <<script, run, out, page, files, inflight, waited>>

\* Mutant: the script closes after the navigation without a screenshot.
Login_goto_NoShot ==
    /\ At("verify_login_page", "goto")
    /\ Goto("close")
    /\ UNCHANGED <<script, run, out, files, inflight, waited>>

Login_goto ==
    /\ At("verify_login_page", "goto")
    /\ Goto("screenshot")
    /\ UNCHANGED <<script, run, out, files, inflight, waited>>

Login_screenshot ==
    /\ At("verify_login_page", "screenshot")
    /\ Screenshot
    /\ UNCHANGED <<script, run, out, page, inflight, waited>>

Login_close ==
    /\ At("verify_login_page", "close")
    /\ Close
    /\ UNCHANGED <<script, run, out, page, files, inflight, waited>>

verify_login_page ==
    \/ Login_launch
    \/ Login_new_page
    \/ Login_goto
    \/ Login_screenshot
    \/ Login_close

(***************************************************************************)
(* The specifications.                                                     *)
(***************************************************************************)
\* A statement of the running script executes.
Exec ==
    \/ verify
    \/ main
    \/ verify_login_page

Next ==
    \/ Verify_start
    \/ Fix_start
    \/ Login_start
    \/ Exec

Spec == Init /\ [][Next]_vars

\* A started script keeps executing: the interpreter runs the next statement,
\* and every library call returns or raises within its timeout.
FairSpec == Spec /\ WF_vars(Exec)

(***************************************************************************)
(* What a state says about the current run.                                *)
(***************************************************************************)
Did(s) == \E i \in DOMAIN trace : trace[i].step = s
Succeeded(s) == \E i \in DOMAIN trace : trace[i] = Step(s, TRUE)
TimedOut(s) == \E i \in DOMAIN trace : trace[i] = Step(s, FALSE)
Count(s) == Cardinality({i \in DOMAIN trace : trace[i].step = s})
Before(a, b) ==
    \A i, j \in DOMAIN trace :
        trace[i].step = a /\ trace[j].step = b => i < j
Printed(m) == \E i \in DOMAIN out : out[i] = m
WrittenBy(r) == {p \in Paths : files[p].run = r}
Wrote == files[ShotPath].run = run
\* The statements executed so far are the first ones of the program, in order.
IsPrefix(steps) ==
    /\ Len(trace) <= Len(steps)
    /\ \A i \in DOMAIN trace : trace[i].step = steps[i]
\* The place of statement s in the program.
Index(steps, s) == CHOOSE k \in DOMAIN steps : steps[k] = s
\* The statements executed so far were executed in program order, none twice.
InOrder(steps) ==
    \A i, j \in DOMAIN trace :
        i < j => Index(steps, trace[i].step) < Index(steps, trace[j].step)
Running == pc \notin Terminal \cup {"idle"}
AlreadyMsg == "Already logged in."
NotLoggedInMsg == "Not logged in, attempting to sign in."

C1_Safe ==
    (script = "verify" /\ Succeeded("wait_for_selector_first")) =>
        /\ ~Printed(NotLoggedInMsg)
        /\ ~Did("print_not_logged_in")
        /\ ~Did("click")
        /\ ~Did("wait_for_selector_second")
        /\ pc # "failed"
        /\ (pc # "print_already" => out = <<AlreadyMsg>>)
        /\ (pc = "done" => Wrote /\ Succeeded("screenshot"))
\* C1: in script 1, once the first wait for "New Deployment" has succeeded,
\* "Already logged in." is the only line printed, the sign-in click and the
\* second wait are never executed, the run never fails, a finished run has
\* written the screenshot, and the run does finish.
C1_AlreadyLoggedIn ==
    /\ []C1_Safe
    /\ (script = "verify" /\ Succeeded("wait_for_selector_first"))
          ~> (pc = "done" /\ Wrote /\ out = <<AlreadyMsg>>)
C1_Witness ==
    /\ script = "verify"
    /\ Succeeded("wait_for_selector_first")
    /\ pc = "done"
    /\ Wrote
    /\ out = <<AlreadyMsg>>

LoginPath ==
    /\ script = "verify"
    /\ TimedOut("wait_for_selector_first")
    /\ Succeeded("click")
    /\ Succeeded("wait_for_selector_second")
C2_Safe ==
    LoginPath =>
        /\ out = <<NotLoggedInMsg>>
        /\ Before("wait_for_selector_first", "print_not_logged_in")
        /\ Before("print_not_logged_in", "click")
        /\ Before("click", "wait_for_selector_second")
        /\ Before("wait_for_selector_second", "screenshot")
        /\ pc # "failed"
        /\ (Wrote <=> Did("screenshot"))
        /\ (pc = "done" => Wrote)
\* C2: in script 1, when the first wait has timed out, the click has
\* succeeded and the second wait has succeeded, the message "Not logged in,
\* attempting to sign in." was printed before the click, the click came
\* before the second wait, the screenshot comes after the second wait, the
\* run never fails, and it finishes with the screenshot written.
C2_LoginPath ==
    /\ []C2_Safe
    /\ LoginPath ~> (pc = "done" /\ Wrote)
C2_Witness ==
    /\ LoginPath
    /\ pc = "done"
    /\ Wrote
    /\ waited > FirstTimeout + DefaultTimeout

\* C3: in script 1, when both waits for "New Deployment" have timed out, the
\* run has ended with the second wait's failure uncaught, the screenshot
\* statement was not executed and the run has written no file.
C3_DoubleFailure ==
    (script = "verify" /\ TimedOut("wait_for_selector_first")
                      /\ TimedOut("wait_for_selector_second")) =>
        /\ pc = "failed"
        /\ failure = "wait_for_selector_second"
        /\ ~Did("screenshot")
        /\ ~Did("close")
        /\ WrittenBy(run) = {}
C3_Witness ==
    /\ script = "verify"
    /\ TimedOut("wait_for_selector_first")
    /\ TimedOut("wait_for_selector_second")
    /\ pc = "failed"
    /\ waited = FirstTimeout + SecondTimeout

FixRun == script = "verify_fix"
C4_Safe ==
    FixRun =>
        /\ (Wrote => Succeeded("wait_for_selector"))
        /\ (pc = "done" => Succeeded("wait_for_selector") /\ Wrote)
        /\ (TimedOut("wait_for_selector") =>
               /\ pc = "failed"
               /\ failure = "wait_for_selector"
               /\ Count("wait_for_selector") = 1
               /\ ~Did("screenshot")
               /\ WrittenBy(run) = {})
\* C4: in script 2, the screenshot is written only after the wait for
\* "Select a repository" has succeeded, and once it has succeeded the run
\* goes on to write the screenshot and finish; when the wait has timed out
\* the run has ended with that failure uncaught, the wait was issued once,
\* the screenshot statement was not executed and nothing was written.
C4_FixIff ==
    /\ []C4_Safe
    /\ (FixRun /\ Succeeded("wait_for_selector")) ~> (pc = "done" /\ Wrote)
C4_Witness ==
    /\ FixRun
    /\ TimedOut("wait_for_selector")
    /\ pc = "failed"
    /\ waited = DefaultTimeout

LoginRun == script = "verify_login_page"
\* C5 as stated: no run of script 3 ends without the screenshot written.
C5_Original ==
    (LoginRun /\ pc \in Terminal) => Wrote
C5_Safe ==
    LoginRun =>
        /\ IsPrefix(LoginSteps)
        /\ waited = 0
        /\ (Succeeded("goto") => pc # "failed")
        /\ (Did("screenshot") => files[ShotPath] = [run |-> run, image |-> page])
        /\ (pc = "done" => Wrote)
        /\ (pc = "failed" => failure = "goto" /\ WrittenBy(run) = {})
\* C5, amended: script 3 waits on no element; every run of it whose
\* navigation has completed writes a screenshot of whatever page is then
\* rendered and finishes; a run whose navigation fails ends with that
\* failure uncaught and writes nothing.
C5_LoginAfterNavigation ==
    /\ []C5_Safe
    /\ (LoginRun /\ Succeeded("goto")) ~> (pc = "done" /\ Wrote)
C5_Witness ==
    /\ LoginRun
    /\ pc = "done"
    /\ files[ShotPath] = [run |-> run, image |-> {SignInWithGitHub}]

\* C6 as stated: every run writes exactly one file.
C6_Original ==
    pc \in Terminal => Cardinality(WrittenBy(run)) = 1
C6_Safe ==
    /\ (pc # "idle" => WrittenBy(run) \subseteq {ShotPath})
    /\ files[OtherPath] = Absent
    /\ (pc # "idle" => (Wrote <=> Succeeded("screenshot")))
    /\ (pc = "done" => Wrote)
    /\ (pc = "failed" => ~Wrote)
    /\ Count("screenshot") <= 1
C6_Step ==
    \/ files' = files
    \/ /\ pc = "screenshot"
       /\ files' = [files EXCEPT ![ShotPath] = [run |-> run, image |-> page]]
\* C6, amended: a run writes at most one file, always at the fixed path
\* jules-scratch/verification/verification.png, and exactly one when it
\* executes its screenshot statement (a run that fails before it writes
\* none); the write replaces whatever was at that path, and no step changes
\* any other file.
C6_OutputArtifact ==
    /\ []C6_Safe
    /\ [][C6_Step]_vars
C6_Witness ==
    /\ run = 2
    /\ pc = "done"
    /\ Wrote
    /\ files[OtherPath] = Absent

SelectorWaits ==
    {"wait_for_selector_first", "wait_for_selector_second", "wait_for_selector"}
FailuresOf(sc) ==
    CASE sc = "verify" ->
           {"goto", "wait_for_load_state", "click", "wait_for_selector_second"}
      [] sc = "verify_fix" -> {"goto", "wait_for_selector"}
      [] sc = "verify_login_page" -> {"goto"}
      [] OTHER -> {}
Last(s) == s[Len(s)]
\* Launched once at the start; closed once, as the last statement, right
\* after the screenshot, exactly on the runs that reach the end.
BrowserScoped ==
    /\ Count("launch") <= 1
    /\ Count("close") <= 1
    /\ (trace # <<>> => trace[1] = Step("launch", TRUE))
    /\ (Did("close") <=> pc = "done")
    /\ (pc = "done" =>
          /\ Last(trace) = Step("close", TRUE)
          /\ trace[Len(trace) - 1] = Step("screenshot", TRUE))
\* C8 as stated: scripts 1 and 2 are the two with an error path that skips
\* the close call, so every run of script 3 that ends has executed it.
C8_Original ==
    /\ BrowserScoped
    /\ (LoginRun /\ pc \in Terminal => Did("close"))
\* C8, amended: in every script the browser is launched exactly once, as the
\* first statement, and the close call is executed exactly once, as the last
\* statement right after the screenshot, on every run that reaches the end;
\* in all three scripts a run that ends with an uncaught failure (script 3:
\* a failed navigation) has launched the browser and never reaches the
\* close call.
C8_BrowserRelease ==
    /\ BrowserScoped
    /\ (pc = "failed" =>
          /\ Count("launch") = 1
          /\ ~Did("close")
          /\ ~Did("screenshot"))
C8_Witness ==
    /\ LoginRun
    /\ pc = "failed"
    /\ Succeeded("launch")
    /\ ~Did("close")

\* C9: script 1 issues the wait for "New Deployment" at most twice and the
\* click at most once, both only after the first wait failed; script 2
\* issues its selector wait at most once; script 3 issues none; no script
\* executes any statement twice.
C9_NoRetry ==
    /\ \A i, j \in DOMAIN trace : trace[i].step = trace[j].step => i = j
    /\ (script = "verify" =>
          /\ InOrder(VerifySteps)
          /\ Count("wait_for_selector_first") + Count("wait_for_selector_second") <= 2
          /\ Count("wait_for_selector_first") <= 1
          /\ Count("click") <= 1
          /\ ~Did("wait_for_selector")
          /\ (Did("click") \/ Did("wait_for_selector_second") =>
                /\ TimedOut("wait_for_selector_first")
                /\ Before("wait_for_selector_first", "click")
                /\ Before("wait_for_selector_first", "wait_for_selector_second")))
    /\ (FixRun =>
          /\ Count("wait_for_selector") <= 1
          /\ \A s \in SelectorWaits \ {"wait_for_selector"} : ~Did(s)
          /\ ~Did("click"))
    /\ (LoginRun => \A s \in SelectorWaits \cup {"click"} : ~Did(s))
C9_Witness ==
    /\ script = "verify"
    /\ Count("wait_for_selector_first") = 1
    /\ Count("wait_for_selector_second") = 1
    /\ Count("click") = 1
    /\ pc = "done"

WaitBound(sc) ==
    CASE sc = "verify" -> FirstTimeout + SecondTimeout
      [] sc = "verify_fix" -> DefaultTimeout
      [] OTHER -> 0
C10_Safe ==
    /\ waited <= WaitBound(script)
    /\ Cardinality(inflight) <= 1
    /\ (~FixRun => inflight = {})
    /\ (FixRun =>
          /\ IsPrefix(FixSteps)
          /\ inflight \subseteq {pc}
          /\ (Running => pc = FixSteps[Len(trace) + 1]))
\* C10: every run that has started ends, finished or failed, whatever the
\* target application does; the time spent in element waits is bounded by
\* the timeouts (10 s plus 60 s in script 1, the default in script 2); in
\* script 2 the statements run one at a time in program order (launch, new
\* page, navigate, wait, screenshot, close), never two pending together.
C10_Termination ==
    /\ []C10_Safe
    /\ Running ~> (pc \in Terminal)
C10_Witness ==
    /\ FixRun
    /\ pc = "done"
    /\ Len(trace) = Len(FixSteps)
    /\ waited = DefaultTimeout - 1

====
